---------------------------- MODULE Spec2Model ----------------------------
(***************************************************************************)
(* State-machine model of funelk/environ, src/src/extension.ts.            *)
(*                                                                         *)
(* Strings are sequences of tokens.  A token is a literal piece of text    *)
(* ("x", ":", "/", "a") or a whole reference "${A}".  No literal token     *)
(* contains "$", "{", "}" or a backslash, so two values are the same       *)
(* string exactly when they are the same token sequence.                   *)
(*                                                                         *)
(* An EnvMap (a JavaScript object with string keys) is a sequence of       *)
(* records [k, v] with distinct keys, in insertion order, which is the     *)
(* order Object.keys / Object.entries / for-in iterate in.                 *)
(*                                                                         *)
(* A path is a sequence of segments; an absolute path starts with the      *)
(* segment "/" (POSIX), so the root is <<"/">>.                            *)
(*                                                                         *)
(* The setting environ.pathResolves is held at its default {} throughout:  *)
(* the loop of resolveEnvironments then has no entry to visit.             *)
(*                                                                         *)
(* process.env is case-sensitive and pathSeparator is ":" (not win32).     *)
(*                                                                         *)
(* dotenvExpand.expand is modelled as the library computes it: a key whose *)
(* process.env value is non-empty and differs from the parsed value takes  *)
(* the process.env value; otherwise references are replaced from           *)
(* process.env first and the keys expanded so far second; at the end every *)
(* parsed key is written to process.env.  The values of the presets and of *)
(* the initial process.env hold no reference.                              *)
(*                                                                         *)
(* Spec runs the calls over fixed files and settings.  SpecRefresh lets    *)
(* the env files and the variable filter change between two calls, the     *)
(* extension host being single-threaded.  SpecFault lets the host fail: a  *)
(* collection write that throws for the keys of rejects, and               *)
(* dotenvExpand.expand throwing.  SpecPath runs the two directory walks    *)
(* for any start path.                                                     *)
(***************************************************************************)
EXTENDS Naturals, Sequences, FiniteSets

VARIABLES
    folder,          \* folder.uri.fsPath / the startPath argument
    fs,              \* the file system: existing path -> content
    config,          \* settings "environ.*" and the workspaceState filter
    processEnv,      \* process.env
    collection,      \* context.environmentVariableCollection
    commands,        \* ids registered with vscode.commands
    varsCommandDisposables,
    pc,              \* position inside updateEnvironmentVariableCollection
    calls,           \* completed calls of updateEnvironmentVariableCollection
    envPaths,        \* result of findEnvFilesUpwards
    merged,          \* parseEnvFiles: merged
    envFromFiles,    \* getConfiguredEnvironment: envFromFiles
    combined,        \* getConfiguredEnvironment: combined
    filterOut,       \* result of filterEnvByAllowed(combined, allowed)
    filtered,        \* getConfiguredEnvironment: filtered
    ex,              \* locals of the running expandVariables call
    ensured,         \* updateEnvironmentVariableCollection: ensured
    it,              \* locals of the merge-strategy loop's last iteration
    directories,     \* result of getParentDirectories
    ret,             \* value returned by the last call
    outcome,         \* how the last call ended: "returned", or what threw
    rejects,         \* keys whose write the collection refuses by throwing
    edits            \* changes made to the files and the filter so far

cfgVars == <<folder, fs, config, rejects, edits>>
hostVars == <<processEnv, collection, commands, varsCommandDisposables>>
gceVars == <<envPaths, merged, envFromFiles, combined, filterOut, filtered>>
updVars == <<ensured, it, directories, ret, outcome>>
vars == <<cfgVars, hostVars, pc, calls, gceVars, ex, updVars>>

-----------------------------------------------------------------------------
(* JavaScript values *)

undefined == <<"undefined">>

Truthy(s) == s # undefined /\ s # <<>>

-----------------------------------------------------------------------------
(* EnvMap: insertion-ordered object *)

Keys(m) == {m[i].k : i \in DOMAIN m}

Has(m, key) == key \in Keys(m)

Get(m, key) ==
    IF Has(m, key) THEN m[CHOOSE i \in DOMAIN m : m[i].k = key].v ELSE undefined

Put(m, key, value) ==
    IF Has(m, key)
    THEN [i \in DOMAIN m |-> IF m[i].k = key THEN [k |-> key, v |-> value] ELSE m[i]]
    ELSE Append(m, [k |-> key, v |-> value])

RECURSIVE Spread(_, _)
Spread(target, source) ==
    IF source = <<>> THEN target
    ELSE Spread(Put(target, Head(source).k, Head(source).v), Tail(source))

-----------------------------------------------------------------------------
(* Node's path module, POSIX flavour *)

Root == <<"/">>

Cwd == <<"/", "w">>

IsAbsolute(p) == p # <<>> /\ Head(p) = "/"

RECURSIVE NormalizeSegs(_, _)
NormalizeSegs(segs, acc) ==
    IF segs = <<>> THEN acc
    ELSE LET s == Head(segs) IN
         IF s = "." THEN NormalizeSegs(Tail(segs), acc)
         ELSE IF s = ".."
              THEN NormalizeSegs(Tail(segs),
                                 IF acc = <<>> THEN acc
                                 ELSE SubSeq(acc, 1, Len(acc) - 1))
              ELSE NormalizeSegs(Tail(segs), Append(acc, s))

pathResolve(p) ==
    Root \o NormalizeSegs(IF IsAbsolute(p) THEN Tail(p) ELSE Tail(Cwd) \o p, <<>>)

pathDirname(p) == IF Len(p) <= 1 THEN p ELSE SubSeq(p, 1, Len(p) - 1)

pathJoin(p, segs) == Root \o NormalizeSegs(Tail(p) \o segs, <<>>)

-----------------------------------------------------------------------------
(* getParentDirectories *)

RECURSIVE WalkBelowRoot(_, _)
WalkBelowRoot(current, paths) ==
    LET parent == pathDirname(current)
    IN  IF parent = current THEN paths
        ELSE WalkBelowRoot(parent, Append(paths, current))

RECURSIVE ParentWalk(_, _)
ParentWalk(current, paths) ==
    LET pushed == Append(paths, current)
        parent == pathDirname(current)
    IN  IF parent = current THEN pushed ELSE ParentWalk(parent, pushed)

getParentDirectories(startPath) == ParentWalk(pathResolve(startPath), <<>>)

-----------------------------------------------------------------------------
(* findEnvFilesUpwards *)

existsSync(files, p) == p \in DOMAIN files

Candidates(current, envFileName) ==
    << pathJoin(current, <<".vscode", envFileName>>),
       pathJoin(current, <<envFileName>>) >>

PushBack(list, candidate) == Append(list, candidate)

Unshift(list, candidate) == <<candidate>> \o list

RECURSIVE ProbeCandidates(_, _, _)
ProbeCandidates(files, cands, list) ==
    IF cands = <<>> THEN list
    ELSE ProbeCandidates(files, Tail(cands),
                         IF existsSync(files, Head(cands))
                         THEN Unshift(list, Head(cands))
                         ELSE list)

RECURSIVE FindWalk(_, _, _, _)
FindWalk(files, current, envFileName, list) ==
    LET found == ProbeCandidates(files, Candidates(current, envFileName), list)
        parent == pathDirname(current)
    IN  IF parent = current THEN found
        ELSE FindWalk(files, parent, envFileName, found)

findEnvFilesUpwards(files, startFolderFsPath, envFileName) ==
    FindWalk(files, pathResolve(startFolderFsPath), envFileName, <<>>)

-----------------------------------------------------------------------------
(* dotenv.parse and parseEnvFiles' merge loop *)

\* A file's text is the sequence of its KEY=VALUE assignments; a path whose
\* read fails (a directory, no permission) has readable = FALSE.
dotenvParse(text) == Spread(<<>>, text)

KeepFirst(m, key, value) == IF Has(m, key) THEN m ELSE Put(m, key, value)

AssignMerged(m, key, value) == Put(m, key, value)

RECURSIVE MergeEntries(_, _)
MergeEntries(m, entries) ==
    IF entries = <<>> THEN m
    ELSE MergeEntries(AssignMerged(m, Head(entries).k, Head(entries).v),
                      Tail(entries))

ResetOnFailure(m, f) ==
    IF f.readable THEN MergeEntries(m, dotenvParse(f.text)) ELSE <<>>

\* try { read, parse, merge } catch { console.error }: a file whose read
\* throws leaves merged as it was
MergeFile(m, f) ==
    IF f.readable THEN MergeEntries(m, dotenvParse(f.text)) ELSE m

RECURSIVE MergeFiles(_, _, _)
MergeFiles(files, paths, m) ==
    IF paths = <<>> THEN m
    ELSE MergeFiles(files, Tail(paths), MergeFile(m, files[Head(paths)]))

-----------------------------------------------------------------------------
(* dotenv-expand: expand({ parsed }) against process.env *)

EnvKeys == {"A", "B", "PATH"}

RefKey(t) ==
    CASE t = "${A}" -> "A"
      [] t = "${B}" -> "B"
      [] t = "${PATH}" -> "PATH"
      [] OTHER -> "?"

IsRef(t) == RefKey(t) # "?"

FirstRef(s) ==
    IF \E i \in DOMAIN s : IsRef(s[i])
    THEN CHOOSE i \in DOMAIN s : IsRef(s[i]) /\ \A j \in 1..(i - 1) : ~IsRef(s[j])
    ELSE 0

ReplaceAt(s, i, v) == SubSeq(s, 1, i - 1) \o v \o SubSeq(s, i + 1, Len(s))

\* { ...runningParsed, ...processEnv }[key]
ExpandLookup(env, runningParsed, key) ==
    IF env[key] # undefined THEN env[key] ELSE Get(runningParsed, key)

\* The while loop of expandValue.  Every value process.env or runningParsed
\* holds is reference-free in this model, so each round removes a reference.
RECURSIVE ExpandLoop(_, _, _, _)
ExpandLoop(result, seen, env, runningParsed) ==
    LET i == FirstRef(result) IN
    IF i = 0 THEN result
    ELSE LET seenNow == seen \cup {result}
             key == RefKey(result[i])
             value == ExpandLookup(env, runningParsed, key)
             replaced == IF Truthy(value) /\ value \notin seenNow
                         THEN ReplaceAt(result, i, value)
                         ELSE ReplaceAt(result, i, <<>>)
         IN  IF replaced = Get(runningParsed, key) THEN replaced
             ELSE ExpandLoop(replaced, seenNow, env, runningParsed)

expandValue(value, env, runningParsed) == ExpandLoop(value, {}, env, runningParsed)

\* One round of expand's first loop: process.env short-circuits the file value.
ExpandOne(key, value, env, runningParsed) ==
    IF Truthy(env[key]) /\ env[key] # value
    THEN env[key]
    ELSE expandValue(value, env, runningParsed)

RECURSIVE ExpandEntries(_, _, _, _)
ExpandEntries(parsed, i, env, runningParsed) ==
    IF i > Len(parsed) THEN parsed
    ELSE LET key == parsed[i].k
             value == ExpandOne(key, parsed[i].v, env, runningParsed)
         IN  ExpandEntries(Put(parsed, key, value), i + 1, env,
                           Put(runningParsed, key, value))

\* expand's second loop: processEnv[processKey] = options.parsed[processKey]
WriteParsed(env, parsed) ==
    [key \in EnvKeys |-> IF Has(parsed, key) THEN Get(parsed, key) ELSE env[key]]

dotenvExpand(parsed, env) ==
    LET out == ExpandEntries(parsed, 1, env, <<>>)
    IN  [parsed |-> out, env |-> WriteParsed(env, out)]

-----------------------------------------------------------------------------
(* expandVariables *)

NoOriginals == [key \in EnvKeys |-> undefined]

ExIdle ==
    [site |-> "none", map |-> <<>>, baseEnv |-> <<>>, parsed |-> <<>>,
     touchedKeys |-> <<>>, originalValues |-> NoOriginals,
     before |-> NoOriginals, expanded |-> <<>>]

ExCall(site, map, baseEnv, env) ==
    [ExIdle EXCEPT !.site = site, !.map = map, !.baseEnv = baseEnv, !.before = env]

InSeq(s, x) == \E i \in DOMAIN s : s[i] = x

\* rememberOriginal(key) on the pair (locals, process.env)
rememberOriginal(st, key) ==
    IF InSeq(st.touchedKeys, key) THEN st
    ELSE [st EXCEPT !.touchedKeys = Append(@, key),
                    !.originalValues = [@ EXCEPT ![key] = st.env[key]]]

\* for (const [key, value] of Object.entries(baseEnv))
RECURSIVE WriteBase(_, _)
WriteBase(st, entries) ==
    IF entries = <<>> THEN st
    ELSE LET r == rememberOriginal(st, Head(entries).k)
         IN  WriteBase([r EXCEPT !.env = [@ EXCEPT ![Head(entries).k] = Head(entries).v]],
                       Tail(entries))

\* for (const key of Object.keys(parsed))
RECURSIVE RememberParsed(_, _)
RememberParsed(st, entries) ==
    IF entries = <<>> THEN st
    ELSE RememberParsed(rememberOriginal(st, Head(entries).k), Tail(entries))

RestoreKeepingNew(env, key, previous) ==
    IF previous = undefined THEN env ELSE [env EXCEPT ![key] = previous]

\* delete process.env[key] when it was absent, else put the old value back
RestoreKey(env, key, previous) == [env EXCEPT ![key] = previous]

RECURSIVE RestoreTouched(_, _, _)
RestoreTouched(env, touched, originals) ==
    IF touched = <<>> THEN env
    ELSE RestoreTouched(RestoreKey(env, Head(touched), originals[Head(touched)]),
                        Tail(touched), originals)

-----------------------------------------------------------------------------
(* filterEnvByAllowed *)

FilterKeepEmpty(out, env, key) == Put(out, key, Get(env, key))

FilterAdd(out, env, key) ==
    IF Get(env, key) # undefined THEN Put(out, key, Get(env, key)) ELSE out

RECURSIVE FilterLoop(_, _, _)
FilterLoop(out, env, allowed) ==
    IF allowed = <<>> THEN out
    ELSE FilterLoop(FilterAdd(out, env, Head(allowed)), env, Tail(allowed))

filterEnvByAllowed(env, allowed) ==
    IF allowed = undefined \/ Len(allowed) = 0 THEN env
    ELSE FilterLoop(<<>>, env, allowed)

-----------------------------------------------------------------------------
(* resolveEnvironments with environ.pathResolves = {} *)

\* const resolved = { ...variables }; the for loop visits no entry
resolveEnvironments(variables) == Spread(<<>>, variables)

-----------------------------------------------------------------------------
(* environmentVariableCollection, merge strategies, PATH components *)

pathSeparator == ":"

DEFAULT_ENV_FILE_NAME == ".env"

DEFAULT_MERGE_STRATEGIES == [key \in {"PATH"} |-> "prepend"]

NoMutator == [set |-> FALSE, value |-> <<>>, type |-> "none"]

Mutator(value, type) == [set |-> TRUE, value |-> value, type |-> type]

\* context.environmentVariableCollection.get(key)?.value ?? ""
CurrentValue(coll, key) == IF coll[key].set THEN coll[key].value ELSE <<>>

\* mergeStrategies[key] || "replace"
StrategyOf(mergeStrategies, key) ==
    IF key \in DOMAIN mergeStrategies THEN mergeStrategies[key] ELSE "replace"

\* (currentValue && pathSeparator)
SeparatorIf(currentValue) ==
    IF Truthy(currentValue) THEN <<pathSeparator>> ELSE <<>>

AlwaysSeparated(strategy, value, currentValue) ==
    IF strategy = "prepend" THEN value \o <<pathSeparator>>
    ELSE IF strategy = "append" THEN <<pathSeparator>> \o value
    ELSE value

\* the value handed to prepend / append / replace
MutatorValue(strategy, value, currentValue) ==
    IF strategy = "prepend" THEN value \o SeparatorIf(currentValue)
    ELSE IF strategy = "append" THEN SeparatorIf(currentValue) \o value
    ELSE value

RECURSIVE PathText(_)
PathText(p) ==
    IF Len(p) <= 1 THEN <<"/">>
    ELSE (IF Len(p) = 2 THEN <<>> ELSE PathText(SubSeq(p, 1, Len(p) - 1)))
         \o <<"/", p[Len(p)]>>

\* directories.join(pathSeparator)
RECURSIVE JoinDirectories(_)
JoinDirectories(dirs) ==
    IF dirs = <<>> THEN <<>>
    ELSE IF Len(dirs) = 1 THEN PathText(dirs[1])
    ELSE PathText(dirs[1]) \o <<pathSeparator>> \o JoinDirectories(Tail(dirs))

PrependString(dirs) == JoinDirectories(dirs) \o <<pathSeparator>>

\* registerCommand throws for an id that is already registered
RECURSIVE RegisterAll(_, _)
RegisterAll(reg, keys) ==
    IF keys = <<>> THEN reg
    ELSE RegisterAll(IF Head(keys) \in reg.live THEN reg
                     ELSE [live |-> reg.live \cup {Head(keys)},
                           disposables |-> Append(reg.disposables, Head(keys))],
                     Tail(keys))

\* the callback of the command environ.$KEY
CommandValue(coll, env, key) ==
    IF coll[key].set THEN coll[key].value
    ELSE IF env[key] # undefined THEN env[key]
    ELSE <<>>

KeySeq(m) == [i \in DOMAIN m |-> m[i].k]

SeqRange(s) == {s[i] : i \in DOMAIN s}

-----------------------------------------------------------------------------
(* Bounds and input sets *)

MaxCalls == 4

MaxSegs == 2

MaxEdits == 1

Entry(key, value) == [k |-> key, v |-> value]

File(text) == [readable |-> TRUE, text |-> text]

Unreadable == [readable |-> FALSE, text |-> <<>>]

TextA == <<Entry("A", <<"x">>)>>
TextB == <<Entry("A", <<"y">>), Entry("B", <<"${A}", "z">>)>>
TextP == <<Entry("PATH", <<"x">>)>>
TextC == <<Entry("B", <<"y">>), Entry("A", <<"y">>), Entry("B", <<>>)>>
TextR == <<Entry("B", <<"x", "${A}", "z">>)>>

Folders == {Root, <<"/", "a">>}

FileChoices(p) ==
    IF p = <<"/", ".vscode", ".env">> THEN {File(TextA)}
    ELSE IF p = <<"/", ".env">> THEN {File(TextB), Unreadable}
    ELSE IF p = <<"/", "a", ".vscode", ".env">> THEN {File(TextP)}
    ELSE IF p = <<"/", "a", ".env">> THEN {File(TextA), File(TextC), Unreadable}
    ELSE {File(<<>>)}

Locations(start) ==
    UNION {SeqRange(Candidates(d, DEFAULT_ENV_FILE_NAME)) :
               d \in SeqRange(getParentDirectories(start))}

FileSystems(start) ==
    UNION {{f \in [S -> UNION {FileChoices(p) : p \in S}] :
               \A p \in S : f[p] \in FileChoices(p)} :
           S \in SUBSET Locations(start)}

Presets == {<<>>, <<Entry("A", <<"p">>)>>}

Filters == {undefined, <<>>, <<"A">>, <<"B", "PATH">>}

Strategies ==
    {DEFAULT_MERGE_STRATEGIES,
     [key \in {"A", "B"} |-> IF key = "A" THEN "prepend" ELSE "append"]}

Configs ==
    [presets : Presets, allowed : Filters, mergeStrategies : Strategies,
     prependPaths : BOOLEAN, envFileName : {DEFAULT_ENV_FILE_NAME}]

InitialEnvs ==
    {[key \in EnvKeys |-> IF key = "PATH" THEN <<"s">>
                          ELSE IF key = "A" THEN a ELSE undefined] :
        a \in {undefined, <<"e">>}}

Segments == {"a", ".vscode", "..", "."}

RECURSIVE SegSeqs(_)
SegSeqs(n) ==
    IF n = 0 THEN {<<>>}
    ELSE SegSeqs(n - 1) \cup
         {Append(s, x) : s \in SegSeqs(n - 1), x \in Segments}

StartPaths == SegSeqs(MaxSegs) \cup {Root \o s : s \in SegSeqs(MaxSegs)}

-----------------------------------------------------------------------------
(* Initial states *)

ItIdle ==
    [next |-> 1, key |-> "", value |-> <<>>, strategy |-> "none",
     currentValue |-> <<>>]

Quiet ==
    /\ collection = [key \in EnvKeys |-> NoMutator]
    /\ commands = {}
    /\ varsCommandDisposables = <<>>
    /\ pc = "idle"
    /\ calls = 0
    /\ envPaths = <<>>
    /\ merged = <<>>
    /\ envFromFiles = <<>>
    /\ combined = <<>>
    /\ filterOut = <<>>
    /\ filtered = <<>>
    /\ ex = ExIdle
    /\ ensured = <<>>
    /\ it = ItIdle
    /\ directories = <<>>
    /\ ret = <<>>
    /\ outcome = "none"
    /\ edits = 0

Init ==
    /\ folder \in Folders
    /\ fs \in FileSystems(folder)
    /\ config \in Configs
    /\ processEnv \in InitialEnvs
    /\ rejects = {}
    /\ Quiet

-----------------------------------------------------------------------------
(* updateEnvironmentVariableCollection, step by step *)

\* updateEnvironmentVariableCollection entry, getConfiguredEnvironment up to
\* readEnvFiles: findEnvFilesUpwards, then parseEnvFiles' merge loop and the
\* call expandVariables(merged, presets)
ReadEnvFiles ==
    /\ pc = "idle"
    /\ calls < MaxCalls
    /\ LET found == findEnvFilesUpwards(fs, folder, config.envFileName)
           m == MergeFiles(fs, found, <<>>)
       IN  /\ envPaths' = found
           /\ IF found = <<>>
              THEN /\ merged' = <<>>
                   /\ envFromFiles' = <<>>
                   /\ ex' = ExIdle
                   /\ pc' = "combine"
              ELSE /\ merged' = m
                   /\ envFromFiles' = envFromFiles
                   /\ ex' = ExCall("files", m, config.presets, processEnv)
                   /\ pc' = "expand"
    /\ UNCHANGED <<cfgVars, hostVars, calls, combined, filterOut, filtered, updVars>>

\* return of expandVariables to its call site
ExpandReturn(out) ==
    /\ envFromFiles' = IF ex.site = "files" THEN out ELSE envFromFiles
    /\ filtered' = IF ex.site = "filtered" THEN out ELSE filtered
    /\ pc' = IF ex.site = "files" THEN "combine" ELSE "check"

\* expandVariables up to the call of dotenvExpand.expand
ExpandEnter ==
    /\ pc = "expand"
    /\ IF ex.map = <<>>
       THEN /\ ex' = ex
            /\ processEnv' = processEnv
            /\ ExpandReturn(<<>>)
       ELSE LET st0 == [touchedKeys |-> <<>>, originalValues |-> NoOriginals,
                        env |-> processEnv]
                st1 == WriteBase(st0, ex.baseEnv)
                st2 == RememberParsed(st1, ex.map)
            IN  /\ ex' = [ex EXCEPT !.parsed = ex.map,
                                    !.touchedKeys = st2.touchedKeys,
                                    !.originalValues = st2.originalValues]
                /\ processEnv' = st2.env
                /\ pc' = "expanding"
                /\ UNCHANGED <<envFromFiles, filtered>>
    /\ UNCHANGED <<cfgVars, collection, commands, varsCommandDisposables, calls,
                   envPaths, merged, combined, filterOut, updVars>>

\* const expansion = dotenvExpand.expand({ parsed })
ExpandRun ==
    /\ pc = "expanding"
    /\ LET r == dotenvExpand(ex.parsed, processEnv)
       IN  /\ ex' = [ex EXCEPT !.parsed = r.parsed, !.expanded = r.parsed]
           /\ processEnv' = r.env
    /\ pc' = "restore"
    /\ UNCHANGED <<cfgVars, collection, commands, varsCommandDisposables, calls,
                   gceVars, updVars>>

\* the restore loop over touchedKeys, and return expanded
ExpandRestore ==
    /\ pc = "restore"
    /\ processEnv' = RestoreTouched(processEnv, ex.touchedKeys, ex.originalValues)
    /\ ExpandReturn(ex.expanded)
    /\ ex' = ex
    /\ UNCHANGED <<cfgVars, collection, commands, varsCommandDisposables, calls,
                   envPaths, merged, combined, filterOut, updVars>>

\* getConfiguredEnvironment after readEnvFiles: combined, allowed, the filter
\* and the call expandVariables(filterEnvByAllowed(combined, allowed))
Combine ==
    /\ pc = "combine"
    /\ LET resolvedPresets == resolveEnvironments(Spread(<<>>, config.presets))
           c == resolveEnvironments(Spread(resolvedPresets, envFromFiles))
           f == filterEnvByAllowed(c, config.allowed)
       IN  /\ combined' = c
           /\ filterOut' = f
           /\ ex' = ExCall("filtered", f, <<>>, processEnv)
    /\ pc' = "expand"
    /\ UNCHANGED <<cfgVars, hostVars, calls, envPaths, merged, envFromFiles,
                   filtered, updVars>>

\* if (Object.keys(filtered).length === 0) return {}; else set up the loop
CheckFiltered ==
    /\ pc = "check"
    /\ IF filtered = <<>>
       THEN /\ ret' = <<>>
            /\ outcome' = "returned"
            /\ pc' = "idle"
            /\ calls' = calls + 1
            /\ UNCHANGED <<ensured, it>>
       ELSE /\ ensured' = <<>>
            /\ it' = ItIdle
            /\ pc' = "loop"
            /\ UNCHANGED <<ret, calls, outcome>>
    /\ UNCHANGED <<cfgVars, hostVars, gceVars, ex, directories>>

\* one iteration of for (const [key, value] of Object.entries(filtered))
ApplyVariable ==
    /\ pc = "loop"
    /\ LET key == filtered[it.next].k
           value == filtered[it.next].v
           strategy == StrategyOf(config.mergeStrategies, key)
           currentValue == CurrentValue(collection, key)
           coll == [collection EXCEPT
                      ![key] = Mutator(MutatorValue(strategy, value, currentValue),
                                       strategy)]
           readBack == coll[key].value
       IN  IF key \in rejects
           THEN \* the write throws; nothing catches it before the caller
                /\ it' = [next |-> it.next, key |-> key, value |-> value,
                          strategy |-> strategy, currentValue |-> currentValue]
                /\ outcome' = "writeThrew"
                /\ pc' = "idle"
                /\ calls' = calls + 1
                /\ UNCHANGED <<collection, ensured, processEnv>>
           ELSE /\ collection' = coll
                /\ ensured' = Put(ensured, key, readBack)
                /\ processEnv' = [processEnv EXCEPT ![key] = readBack]
                /\ it' = [next |-> it.next + 1, key |-> key, value |-> value,
                          strategy |-> strategy, currentValue |-> currentValue]
                /\ pc' = IF it.next = Len(filtered) THEN "prependPaths"
                                                    ELSE "loop"
                /\ UNCHANGED <<calls, outcome>>
    /\ UNCHANGED <<cfgVars, commands, varsCommandDisposables, gceVars, ex,
                   directories, ret>>

\* if (prependPaths) { ... prepend("PATH", prependString) ... }
PrependCwdComponents ==
    /\ pc = "prependPaths"
    /\ IF config.prependPaths
       THEN LET dirs == getParentDirectories(folder)
                coll == [collection EXCEPT
                           !["PATH"] = Mutator(PrependString(dirs), "prepend")]
                ensuredPath == coll["PATH"].value
            IN  /\ directories' = dirs
                /\ collection' = coll
                /\ ensured' = Put(ensured, "PATH", ensuredPath)
                /\ processEnv' = [processEnv EXCEPT !["PATH"] = ensuredPath]
       ELSE UNCHANGED <<directories, collection, ensured, processEnv>>
    /\ pc' = "register"
    /\ UNCHANGED <<cfgVars, commands, varsCommandDisposables, calls, gceVars, ex,
                   it, ret, outcome>>

\* dispose the previous per-variable commands, register the new ones, return
RegisterCommands ==
    /\ pc = "register"
    /\ LET reg == RegisterAll([live |-> commands \ SeqRange(varsCommandDisposables),
                               disposables |-> <<>>],
                              KeySeq(filtered))
       IN  /\ commands' = reg.live
           /\ varsCommandDisposables' = reg.disposables
    /\ ret' = ensured
    /\ outcome' = "returned"
    /\ pc' = "idle"
    /\ calls' = calls + 1
    /\ UNCHANGED <<cfgVars, processEnv, collection, gceVars, ex, ensured, it,
                   directories>>

Next ==
    \/ ReadEnvFiles
    \/ ExpandEnter
    \/ ExpandRun
    \/ ExpandRestore
    \/ Combine
    \/ CheckFiltered
    \/ ApplyVariable
    \/ PrependCwdComponents
    \/ RegisterCommands

Spec == Init /\ [][Next]_vars

-----------------------------------------------------------------------------
(* The two directory walks on their own, for any start path *)

InitPath ==
    /\ folder \in StartPaths
    /\ fs \in UNION {[S -> {File(<<>>)}] : S \in SUBSET Locations(folder)}
    /\ config \in [presets : {<<>>}, allowed : {undefined},
                   mergeStrategies : {DEFAULT_MERGE_STRATEGIES},
                   prependPaths : {TRUE}, envFileName : {DEFAULT_ENV_FILE_NAME}]
    /\ processEnv \in InitialEnvs
    /\ rejects = {}
    /\ Quiet

CallGetParentDirectories ==
    /\ pc = "idle"
    /\ directories' = getParentDirectories(folder)
    /\ UNCHANGED <<cfgVars, hostVars, pc, calls, gceVars, ex, ensured, it, ret,
                   outcome>>

CallFindEnvFilesUpwards ==
    /\ pc = "idle"
    /\ envPaths' = findEnvFilesUpwards(fs, folder, config.envFileName)
    /\ UNCHANGED <<cfgVars, hostVars, pc, calls, merged, envFromFiles, combined,
                   filterOut, filtered, ex, updVars>>

NextPath == CallGetParentDirectories \/ CallFindEnvFilesUpwards

SpecPath == InitPath /\ [][NextPath]_vars

-----------------------------------------------------------------------------
(* Calls that end by an exception *)

\* the collection refuses the writes of at most one key
Rejections == {{}, {"A"}, {"B"}}

InitFault ==
    /\ folder = Root
    /\ fs \in FileSystems(folder)
    /\ config \in [presets : Presets, allowed : {undefined},
                   mergeStrategies : {DEFAULT_MERGE_STRATEGIES},
                   prependPaths : BOOLEAN, envFileName : {DEFAULT_ENV_FILE_NAME}]
    /\ processEnv \in InitialEnvs
    /\ rejects \in Rejections
    /\ Quiet

\* dotenvExpand.expand({ parsed }) throws: expandVariables has no try/finally,
\* its callers up to updateEnvironmentVariableCollection catch nothing, so
\* the call ends there with process.env as the writes so far left it
ExpandThrow ==
    /\ pc = "expanding"
    /\ outcome' = "expandThrew"
    /\ pc' = "idle"
    /\ calls' = calls + 1
    /\ UNCHANGED <<cfgVars, hostVars, gceVars, ex, ensured, it, directories, ret>>

NextFault == Next \/ ExpandThrow

SpecFault == InitFault /\ [][NextFault]_vars

-----------------------------------------------------------------------------
(* Files and the filter changing between two calls *)

RefreshFiles == {File(TextA), File(TextB), File(TextR)}

InitRefresh ==
    /\ folder = Root
    /\ fs \in UNION {[S -> RefreshFiles] : S \in SUBSET Locations(folder)}
    /\ config \in [presets : Presets, allowed : {undefined, <<"A">>},
                   mergeStrategies : Strategies, prependPaths : BOOLEAN,
                   envFileName : {DEFAULT_ENV_FILE_NAME}]
    /\ processEnv \in {env \in InitialEnvs : env["A"] = undefined}
    /\ rejects = {}
    /\ Quiet

\* a watched env file is created or rewritten
WriteEnvFile ==
    /\ pc = "idle"
    /\ edits < MaxEdits
    /\ \E p \in Locations(folder), f \in RefreshFiles :
          /\ p \in DOMAIN fs => fs[p] # f
          /\ fs' = [q \in DOMAIN fs \cup {p} |-> IF q = p THEN f ELSE fs[q]]
    /\ edits' = edits + 1
    /\ UNCHANGED <<folder, config, rejects, hostVars, pc, calls, gceVars, ex,
                   updVars>>

\* a watched env file is deleted
DeleteEnvFile ==
    /\ pc = "idle"
    /\ edits < MaxEdits
    /\ \E p \in DOMAIN fs : fs' = [q \in DOMAIN fs \ {p} |-> fs[q]]
    /\ edits' = edits + 1
    /\ UNCHANGED <<folder, config, rejects, hostVars, pc, calls, gceVars, ex,
                   updVars>>

\* setAllowedForFolder(folder, allowed)
SetAllowed ==
    /\ pc = "idle"
    /\ edits < MaxEdits
    /\ \E allowed \in Filters :
          /\ allowed # config.allowed
          /\ config' = [config EXCEPT !.allowed = allowed]
    /\ edits' = edits + 1
    /\ UNCHANGED <<folder, fs, rejects, hostVars, pc, calls, gceVars, ex,
                   updVars>>

NextRefresh == Next \/ WriteEnvFile \/ DeleteEnvFile \/ SetAllowed

SpecRefresh == InitRefresh /\ [][NextRefresh]_vars

-----------------------------------------------------------------------------
(* Vocabulary of the properties *)

\* the file at path p assigns key
Defines(p, key) == fs[p].readable /\ \E i \in DOMAIN fs[p].text : fs[p].text[i].k = key

\* the value the file at p gives key: its last assignment of key
FileValue(p, key) ==
    LET t == fs[p].text
        last == CHOOSE i \in DOMAIN t :
                    t[i].k = key /\ \A j \in DOMAIN t : t[j].k = key => j <= i
    IN  t[last].v

\* the last position of envPaths whose file assigns key
LastDefining(key) ==
    CHOOSE i \in DOMAIN envPaths :
        /\ Defines(envPaths[i], key)
        /\ \A j \in DOMAIN envPaths : Defines(envPaths[j], key) => j <= i

\* the existing candidates of the ancestors of start, root first, each
\* directory's pair in the stated order
RECURSIVE Listing(_, _, _)
Listing(start, n, vscodeFirst) ==
    IF n > Len(start) THEN <<>>
    ELSE LET d == SubSeq(start, 1, n)
             v == d \o <<".vscode", config.envFileName>>
             p == d \o <<config.envFileName>>
             Pick(x) == IF x \in DOMAIN fs THEN <<x>> ELSE <<>>
         IN  (IF vscodeFirst THEN Pick(v) \o Pick(p) ELSE Pick(p) \o Pick(v))
             \o Listing(start, n + 1, vscodeFirst)

\* the merge-strategy loop has just run an iteration
Applied == pc \in {"loop", "prependPaths"} /\ it.next > 1

\* updateEnvironmentVariableCollection has just returned from its last line
Returned == pc = "idle" /\ calls > 0 /\ filtered # <<>>

Max(a, b) == IF a >= b THEN a ELSE b

\* the longest value among the assignments of the files and the presets
LongestInput ==
    LET lens == UNION {{Len(fs[p].text[i].v) : i \in DOMAIN fs[p].text} :
                           p \in DOMAIN fs}
        all == lens \cup {Len(config.presets[i].v) : i \in DOMAIN config.presets}
                    \cup {1}
    IN  CHOOSE n \in all : \A m \in all : m <= n

\* the file system without the files whose read fails
ReadableFiles == [p \in {q \in DOMAIN fs : fs[q].readable} |-> fs[p]]

\* envPaths holds a file whose read fails
SomeFileFails == \E i \in DOMAIN envPaths : ~fs[envPaths[i]].readable

\* value with each reference replaced by the value base gives its name
RECURSIVE SubstituteBase(_, _)
SubstituteBase(value, base) ==
    IF value = <<>> THEN <<>>
    ELSE (IF IsRef(Head(value)) THEN Get(base, RefKey(Head(value)))
          ELSE <<Head(value)>>)
         \o SubstituteBase(Tail(value), base)

\* value has a reference, and each of its references names a key that only
\* base defines, with a reference-free value
RefersToBaseOnly(value, target, base) ==
    /\ FirstRef(value) # 0
    /\ \A i \in DOMAIN value :
          IsRef(value[i]) =>
              /\ RefKey(value[i]) \in Keys(base) \ Keys(target)
              /\ FirstRef(Get(base, RefKey(value[i]))) = 0

\* the last call of updateEnvironmentVariableCollection has returned a map
CallReturned == pc = "idle" /\ calls > 0 /\ outcome = "returned"

-----------------------------------------------------------------------------
(* Properties *)

\* C1: the merged value of every key that some readable file of the list
\* defines is the value of the last file of the list defining it, and that
\* merged map is what expandVariables receives.
C1_LastFileWins ==
    /\ \A key \in EnvKeys :
          (\E i \in DOMAIN envPaths : Defines(envPaths[i], key))
              => Get(merged, key) = FileValue(envPaths[LastDefining(key)], key)
    /\ (pc = "expand" /\ ex.site = "files") => ex.map = merged

C1_Witness ==
    /\ pc = "expand"
    /\ ex.site = "files"
    /\ \E i, j \in DOMAIN envPaths :
          /\ i < j
          /\ Defines(envPaths[i], "A")
          /\ Defines(envPaths[j], "A")
          /\ FileValue(envPaths[i], "A") # FileValue(envPaths[j], "A")
          /\ Get(merged, "A") = FileValue(envPaths[j], "A")

\* C2 as stated: the returned files are the existing candidates in
\* root-to-leaf directory order, the .vscode variant of a directory before
\* its plain variant.
C2_VscodeBeforePlain ==
    envPaths # <<>> => envPaths = Listing(pathResolve(folder), 1, TRUE)

\* C2 amended: the returned files are the existing candidates in
\* root-to-leaf directory order, the plain variant of a directory before its
\* .vscode variant.
C2_PlainBeforeVscode ==
    envPaths # <<>> => envPaths = Listing(pathResolve(folder), 1, FALSE)

C2_Witness ==
    /\ Len(envPaths) >= 4
    /\ \E i \in DOMAIN envPaths : \E j \in DOMAIN envPaths :
          /\ i < j
          /\ pathDirname(envPaths[i]) # Root
          /\ envPaths[j] = pathDirname(envPaths[i]) \o <<".vscode", ".env">>

\* C3 as stated: the list getParentDirectories returns starts at the root,
\* ends at the resolved start path, and each element is the parent of the
\* next one.
C3_RootFirst ==
    directories # <<>> =>
        /\ directories[1] = Root
        /\ directories[Len(directories)] = pathResolve(folder)
        /\ \A i \in 1..(Len(directories) - 1) :
              directories[i] = pathDirname(directories[i + 1])

\* C4: when expandVariables has returned, process.env is what it was when
\* the call began: old values back, keys that were absent absent again.
C4_EnvRestored ==
    (pc \in {"combine", "check"} /\ ex.site # "none") => processEnv = ex.before

C4_Witness ==
    /\ pc = "combine"
    /\ ex.site = "files"
    /\ ex.before["A"] = <<"e">>
    /\ Get(ex.baseEnv, "A") = <<"p">>
    /\ ex.before["B"] = undefined
    /\ Has(ex.expanded, "B")
    /\ processEnv = ex.before

\* C5: with no filter or an empty one the filter returns its input; else
\* the result's keys are exactly the allowed names the input defines, each
\* with the input's value.
C5_FilterExact ==
    IF config.allowed = undefined \/ config.allowed = <<>>
    THEN filterOut = combined
    ELSE /\ Keys(filterOut) = SeqRange(config.allowed) \cap Keys(combined)
         /\ \A key \in Keys(filterOut) : Get(filterOut, key) = Get(combined, key)

C5_Witness ==
    /\ pc = "expand"
    /\ ex.site = "filtered"
    /\ config.allowed = <<"B", "PATH">>
    /\ Get(combined, "B") = <<>>
    /\ Has(combined, "A")
    /\ ~Has(combined, "PATH")
    /\ Keys(filterOut) = {"B"}

\* C6 as stated: after an iteration with strategy prepend and a non-empty
\* current value c the value read back is v + separator + c; with append it
\* is c + separator + v.
C6_MergedWithCurrent ==
    (Applied /\ it.currentValue # <<>>) =>
        /\ it.strategy = "prepend" =>
              Get(ensured, it.key) = it.value \o <<pathSeparator>> \o it.currentValue
        /\ it.strategy = "append" =>
              Get(ensured, it.key) = it.currentValue \o <<pathSeparator>> \o it.value

\* C7: after an iteration with strategy prepend or append and an empty or
\* absent current value, the value written is exactly the configured value.
C7_NoSeparatorOnEmpty ==
    (Applied /\ it.strategy \in {"prepend", "append"} /\ it.currentValue = <<>>) =>
        /\ collection[it.key].value = it.value
        /\ Get(ensured, it.key) = it.value

C7_Witness ==
    /\ Applied
    /\ it.strategy = "prepend"
    /\ it.currentValue = <<>>
    /\ it.value # <<>>
    /\ collection[it.key] = Mutator(it.value, "prepend")

\* C8 as stated: when the call returns, every key of the filtered map whose
\* strategy is replace has the configured value in the collection and in the
\* returned map.
C8_ReplaceExact ==
    Returned =>
        \A key \in Keys(filtered) :
            StrategyOf(config.mergeStrategies, key) = "replace" =>
                /\ collection[key].value = Get(filtered, key)
                /\ Get(ret, key) = Get(filtered, key)

\* C9 as stated, with the bound one application can reach: after every
\* call the value of a prepend or append key, in the collection and in
\* process.env, is no longer than configured value + separator + one more
\* input value, or the directory list.
C9_Bounded ==
    (pc = "idle" /\ calls > 0) =>
        \A key \in EnvKeys :
            (collection[key].set
                /\ StrategyOf(config.mergeStrategies, key) \in {"prepend", "append"}) =>
                LET bound == Max(2 * LongestInput + 1,
                                 Len(PrependString(getParentDirectories(folder))))
                IN  /\ Len(collection[key].value) <= bound
                    /\ Len(processEnv[key]) <= bound

\* C10 as stated: a key that the presets and the files both define has its
\* file value in combined.
C10_FilesOverPresets ==
    (pc = "expand" /\ ex.site = "filtered") =>
        \A key \in Keys(config.presets) \cap Keys(merged) :
            FirstRef(Get(merged, key)) = 0 => Get(combined, key) = Get(merged, key)

\* C11: a file of the list whose read fails contributes no key, and the
\* merged map is the last-write-wins merge of the other files, the same map
\* as if the failing file did not exist; the call goes on to the expansion.
C11_FailingFileSkipped ==
    envPaths # <<>> =>
        /\ merged = MergeFiles(ReadableFiles,
                               findEnvFilesUpwards(ReadableFiles, folder,
                                                   config.envFileName),
                               <<>>)
        /\ \A key \in Keys(merged) :
              \E i \in DOMAIN envPaths : Defines(envPaths[i], key)
        /\ outcome \in {"none", "returned"}

C11_Witness ==
    /\ pc = "expand"
    /\ ex.site = "files"
    /\ SomeFileFails
    /\ \E i, j, k \in DOMAIN envPaths :
          /\ i < j
          /\ j < k
          /\ Defines(envPaths[i], "A")
          /\ ~fs[envPaths[j]].readable
          /\ Defines(envPaths[k], "PATH")
          /\ Keys(merged) = {"A", "PATH"}

\* C12 as stated: when the collection throws on the write of one key, the
\* call still returns normally and every other key of the filtered map has
\* been applied by it.
C12_WriteFailureIsolated ==
    (pc = "idle" /\ calls > 0 /\ outcome # "expandThrew" /\ filtered # <<>>) =>
        /\ outcome = "returned"
        /\ \A key \in Keys(filtered) \ rejects :
              Has(ensured, key) /\ collection[key].set

\* C16: getParentDirectories returns (so the walk has ended) a list without
\* duplicates that holds the root exactly once, whose only element that is
\* its own parent is the last one, and whose length is the depth of the
\* resolved start path plus one.
C16_WalkEndsAtRoot ==
    directories # <<>> =>
        LET n == Len(directories) IN
        /\ Cardinality({i \in 1..n : directories[i] = Root}) = 1
        /\ \A i, j \in 1..n : directories[i] = directories[j] => i = j
        /\ \A i \in 1..n : (pathDirname(directories[i]) = directories[i]) <=> i = n
        /\ n = (Len(pathResolve(folder)) - 1) + 1

C16_Witness ==
    /\ Len(directories) = MaxSegs + 2
    /\ ~IsAbsolute(folder)
    /\ directories[Len(directories)] = Root
    /\ directories[1] = Cwd \o folder

\* C13 as stated: after a call, a key with the replace strategy that passes
\* the filter, that no preset defines and that the files read by this call
\* give a reference-free value has that value in the returned map and in
\* the collection, also when an earlier call applied another value.
C13_ChangeReflected ==
    CallReturned =>
        \A key \in (Keys(merged) \cap Keys(filtered)) \ Keys(config.presets) :
            (/\ StrategyOf(config.mergeStrategies, key) = "replace"
             /\ FirstRef(Get(merged, key)) = 0) =>
                /\ Get(ret, key) = Get(merged, key)
                /\ collection[key].value = Get(merged, key)

\* C14 as stated: after a call the registered environ.$KEY commands are
\* those of the keys of the call's filtered map, and each one answers the
\* value the call returned for its key.
C14_CommandsMatchFiltered ==
    CallReturned =>
        /\ commands = Keys(filtered)
        /\ \A key \in commands :
              CommandValue(collection, processEnv, key) = Get(ret, key)

\* C15 as stated: when the expansion step throws after the base entries were
\* written, process.env is what it was when expandVariables was called.
C15_RestoredOnThrow ==
    (pc = "idle" /\ outcome = "expandThrew") => processEnv = ex.before

\* C17 as stated: the map expandVariables(target, base) computes has the
\* keys of target, and a target value whose references name keys that only
\* base defines comes out with each reference replaced by base's value.
C17_ExpandedFromBase ==
    pc = "restore" =>
        /\ Keys(ex.expanded) = Keys(ex.map)
        /\ \A key \in Keys(ex.map) :
              RefersToBaseOnly(Get(ex.map, key), ex.map, ex.baseEnv) =>
                  Get(ex.expanded, key) =
                      SubstituteBase(Get(ex.map, key), ex.baseEnv)

\* C18 as stated: after a call every key that has a mutator in the
\* collection is a key of the call's filtered map, or is PATH while
\* prependCwdComponentsToPath is on.
C18_NoStaleMutator ==
    CallReturned =>
        \A key \in EnvKeys :
            collection[key].set =>
                \/ key \in Keys(filtered)
                \/ key = "PATH" /\ config.prependPaths

=============================================================================
